---- MODULE Spec2Model ----
(***************************************************************************)
(* The client-side workflow controller of src/app.js: the cart, the        *)
(* pending AI suggestions, the four phases, the cart submission and the    *)
(* poll timer.  Every async function is cut at its awaits: the part up to  *)
(* the fetch is one action, the continuation after the response another.   *)
(* User events are offered only for controls of the section goToStep made  *)
(* active.                                                                 *)
(***************************************************************************)
EXTENDS Integers, Sequences, FiniteSets, TLC

VARIABLES
    cart,               \* state.cart: sequence of item names
    currentStep,        \* state.currentStep
    jobId,              \* state.jobId (NoJob or a job id)
    pollInterval,       \* state.pollInterval: handle of the last setInterval
    zipCode,            \* state.zipCode (NullZip or a sequence of characters)
    pendingSuggestions, \* state.pendingSuggestions
    pollCount,          \* let pollCount
    progress,           \* progressFill.style.width, in percent
    zipInput,           \* zipInput.value
    findPricesDisabled, \* findPricesBtn.disabled
    suggestionsHidden,  \* suggestionsDiv has class 'hidden'
    timers,             \* handles of the intervals that are still set
    timerSeq,           \* number of handles setInterval has given out
    lookups,            \* suspended submitItemForAI calls (awaiting fetchSuggestions)
    now,                \* the reading Date.now() returns
    submits,            \* suspended submitCart calls (awaiting POST /api/cart)
    polls,              \* suspended pollResults calls, counted per polled job id
    submitted,          \* the request bodies sent to /api/cart, by job
    shown,              \* job whose results displayResults rendered (NoJob: none)
    resultsView,        \* the summary and the result cards displayResults wrote
    displayed,          \* the response body displayResults was called with last
    last                \* the handler that ran last, and its argument

vars == <<cart, currentStep, jobId, pollInterval, zipCode, pendingSuggestions,
          pollCount, progress, zipInput, findPricesDisabled, suggestionsHidden,
          timers, timerSeq, lookups, now, submits, polls, submitted, shown,
          resultsView, displayed, last>>

cartVars == <<cart>>
pendingVars == <<pendingSuggestions, suggestionsHidden, lookups>>
zipVars == <<zipCode, zipInput, findPricesDisabled>>
pollVars == <<jobId, pollInterval, pollCount, progress, timers, timerSeq,
              submits, polls, submitted, shown, resultsView, displayed>>

----------------------------------------------------------------------------
(* Program constants (CONFIG) *)

MAX_ITEMS == 10

MIN_ZIP_LENGTH == 5

ProgressStep == 10

ProgressCap == 90

ProgressDone == 100

MaxAlternatives == 3

MinTextLength == 2

(* Bounds of the model *)

\* Spec: the whole program
MaxJobs == 2

MaxInFlight == 1

MaxPollCount == 3

\* SpecPoll: steps 2 to 4 in depth
PollMaxJobs == 3

PollMaxInFlight == 2

PollMaxPollCount == 10

\* SpecBuild: step 1 in depth
BuildMaxPending == 2

MaxClock == 2

\* SpecResults: the results presenter in depth
MaxProducts == 3

ResultsMaxInFlight == 2

ResultsMaxPollCount == 2

\* SpecRemove: removeFromCart on any index
RemoveMaxLen == 4

RemoveMaxIndex == 5

\* SpecLive: polling under fair scheduling
LiveMaxJobs == 3

LiveMaxInFlight == 2

LiveMaxPollCount == 9

\* null for a name (a string)
Null == "null"

\* null for a job id, an interval handle
NoJob == 0

\* null for state.zipCode: a value no sequence of characters equals
NullZip == <<"null">>

\* fetchSuggestions' null
NullData == [isNull |-> TRUE, suggested |-> Null, alternatives |-> <<>>]

----------------------------------------------------------------------------
(* Values the environment supplies *)

Digits == {"0", "1", "2", "3", "4", "5", "6", "7", "8", "9"}

\* what the user may leave in the zip field (typed or pasted)
RawZips == { <<"0", "2", "1", "3", "9">>,
             <<"0", "2", "1", "-", "3", "9">>,
             <<"0", "2", "1", "3", "9", "-", "4", "4", "0", "1">> }

\* what the user may leave in the item field
RawTexts == { <<"m", "i">>, <<" ", "m", " ">> }

\* bodies /api/clarify answers with; a body without 'suggested' has Null there
MilkOrEggs == [isNull |-> FALSE, suggested |-> "milk", alternatives |-> <<"eggs">>]

MilkOnly == [isNull |-> FALSE, suggested |-> "milk", alternatives |-> <<>>]

NoSuggested == [isNull |-> FALSE, suggested |-> Null, alternatives |-> <<>>]

\* the statuses on which pollResults keeps polling
PendingStatuses == {"queued", "processing"}

\* a body without results: data.results || {} is the mapping with no key
NoData == [results |-> <<>>]

\* the merchants of a product list, by position in the list
Merchants == <<"A", "B", "C", "D">>

\* prices, in cents
Prices == {350, 400}

\* the product lists the backend may return for one item
ProductLists ==
    UNION { { [k \in 1..n |-> [merchant |-> Merchants[k], price |-> ps[k]]] :
                ps \in [1..n -> Prices] } : n \in 0..MaxProducts }

\* the product lists of at most one product
ShortLists == { products \in ProductLists : Len(products) <= 1 }

\* bodies GET /api/results answers with for a job on items: a product list
\* for some of the items (any list for the first item, a short one for the
\* others), for the other items no key
RichResponses(items) ==
    UNION { { [results |-> [name \in keys |->
                              IF name = items[1] THEN first ELSE others[name]]] :
                first \in ProductLists,
                others \in [keys \ {items[1]} -> ShortLists] } :
              keys \in SUBSET { items[i] : i \in 1..Len(items) } }

\* the body that has one product for every item
PlainResponses(items) ==
    { [results |-> [name \in { items[i] : i \in 1..Len(items) } |->
                      << [merchant |-> Merchants[1], price |-> 350] >>]] }

----------------------------------------------------------------------------
(* Pure helpers *)

\* the record kept in 'last': the handler, a number and a name it was given
Did(op, a, name) == [op |-> op, a |-> a, name |-> name]

Min(a, b) == IF a < b THEN a ELSE b

Max(a, b) == IF a > b THEN a ELSE b

RECURSIVE SumUpTo(_, _)
SumUpTo(f, n) == IF n < 0 THEN 0 ELSE f[n] + SumUpTo(f, n - 1)

InFlightPolls == SumUpTo(polls, Len(submitted))

\* String.prototype.trim on a sequence of characters
RECURSIVE TrimLeft(_)
TrimLeft(s) == IF s # <<>> /\ Head(s) = " " THEN TrimLeft(Tail(s)) ELSE s

RECURSIVE TrimRight(_)
TrimRight(s) ==
    IF s # <<>> /\ s[Len(s)] = " " THEN TrimRight(SubSeq(s, 1, Len(s) - 1)) ELSE s

Trim(s) == TrimRight(TrimLeft(s))

\* value.replace(/\D/g, '')
IsDigit(c) == c \in Digits

StripNonDigits(s) == SelectSeq(s, IsDigit)

\* Array.prototype.splice(index, 1) on a 0-based index
SpliceStart(len, index) ==
    IF index < 0 THEN Max(len + index, 0) ELSE Min(index, len)

Splice1(s, index) ==
    LET start == SpliceStart(Len(s), index) IN
    IF start >= Len(s) THEN s
    ELSE SubSeq(s, 1, start) \o SubSeq(s, start + 2, Len(s))

\* findIndex(p => p.id === pendingId), 1-based; 0 when there is none
FindIndexById(ps, pendingId) ==
    IF \E i \in 1..Len(ps) : ps[i].id = pendingId
    THEN CHOOSE i \in 1..Len(ps) :
            /\ ps[i].id = pendingId
            /\ \A j \in 1..(i - 1) : ps[j].id # pendingId
    ELSE 0

----------------------------------------------------------------------------
(* Cart Manager *)

\* addToCart without its 'already in cart' check
addToCartNoDedupe(c, name) ==
    IF Len(c) >= MAX_ITEMS THEN c ELSE Append(c, name)

\* addToCart without its 'max items' check
addToCartNoCap(c, name) ==
    IF \E i \in 1..Len(c) : c[i] = name THEN c ELSE Append(c, name)

addToCart(c, name) ==
    IF \E i \in 1..Len(c) : c[i] = name THEN c
    ELSE IF Len(c) >= MAX_ITEMS THEN c
    ELSE Append(c, name)

removeFromCart(c, index) == Splice1(c, index)

\* renderCart: continueBtn.disabled and clearCartBtn's visibility follow the
\* cart, and every handler that changes the cart calls it
ContinueDisabled == Len(cart) = 0

ClearVisible == Len(cart) > 0

----------------------------------------------------------------------------
(* Pending suggestions *)

\* removePendingItem with splice(index) for splice(index, 1): the entries after
\* the one found go too
removePendingItemSpliceRest(ps, pendingId) ==
    LET index == FindIndexById(ps, pendingId) IN
    IF index # 0 THEN SubSeq(ps, 1, index - 1) ELSE ps

removePendingItem(ps, pendingId) ==
    LET index == FindIndexById(ps, pendingId) IN
    IF index # 0 THEN Splice1(ps, index - 1) ELSE ps

\* the names renderPendingSuggestions makes cards for
CardNames(e) ==
    IF e.status = "complete" /\ ~e.suggestions.isNull
    THEN (IF e.suggestions.suggested # Null THEN {e.suggestions.suggested} ELSE {})
         \cup { e.suggestions.alternatives[k] :
                  k \in 1..Min(Len(e.suggestions.alternatives), MaxAlternatives) }
    ELSE {}

\* the completion of submitItemForAI: find(p => p.id === pendingId), then write
completeLookup(ps, pendingId, tag, data) ==
    LET index == FindIndexById(ps, pendingId) IN
    IF index # 0
    THEN [ps EXCEPT ![index].status = "complete",
                    ![index].suggestions = data,
                    ![index].by = @ \cup {tag}]
    ELSE ps

UsedTags == { pendingSuggestions[i].tag : i \in 1..Len(pendingSuggestions) }
            \cup { l.tag : l \in lookups }

\* a mark no live entry or lookup carries: the model's name for one call of
\* submitItemForAI
FreeTag == CHOOSE t \in 1..(Cardinality(UsedTags) + 1) :
              t \notin UsedTags /\ \A u \in 1..(t - 1) : u \in UsedTags

----------------------------------------------------------------------------
(* Results Presenter *)

\* the results section before displayResults has run
NoResults == [itemsFound |-> 0, totalItems |-> 0, totalProducts |-> 0,
              cards |-> <<>>]

\* results[cartItem.name] || []
productsFor(results, name) ==
    IF name \in DOMAIN results THEN results[name] ELSE <<>>

\* where Array.prototype.sort (stable) puts p among products already sorted
\* with the comparator a.price - b.price: after every product that costs no
\* more than p
RECURSIVE InsertByPrice(_, _)
InsertByPrice(sorted, p) ==
    IF sorted = <<>> THEN <<p>>
    ELSE IF sorted[Len(sorted)].price <= p.price THEN Append(sorted, p)
    ELSE Append(InsertByPrice(SubSeq(sorted, 1, Len(sorted) - 1), p),
                sorted[Len(sorted)])

\* [...products].sort((a, b) => a.price - b.price)
RECURSIVE sortByPrice(_)
sortByPrice(products) ==
    IF products = <<>> THEN <<>>
    ELSE InsertByPrice(sortByPrice(SubSeq(products, 1, Len(products) - 1)),
                       products[Len(products)])

\* bestPriceProducts with bestPrice read from the last of the sorted products
bestPriceProductsOfLast(sortedProducts) ==
    LET bestPrice == sortedProducts[Len(sortedProducts)].price
        AtBestPrice(p) == p.price = bestPrice
    IN  SelectSeq(sortedProducts, AtBestPrice)

\* sortedProducts.filter(p => p.price === bestPrice)
bestPriceProducts(sortedProducts) ==
    LET bestPrice == sortedProducts[1].price
        AtBestPrice(p) == p.price = bestPrice
    IN  SelectSeq(sortedProducts, AtBestPrice)

\* the card of one cart item: the placeholder, or the best-price row, with
\* the button '+ otherCount other store(s)' and the collapsed rows when several
\* products share the best price
resultCard(results, name) ==
    LET products == productsFor(results, name) IN
    IF Len(products) = 0
    THEN [name |-> name, noProducts |-> TRUE, best |-> <<>>, expand |-> FALSE,
          otherCount |-> 0, otherStores |-> <<>>]
    ELSE LET best == bestPriceProducts(sortByPrice(products)) IN
         [name |-> name, noProducts |-> FALSE, best |-> best,
          expand |-> Len(best) # 1,
          otherCount |-> IF Len(best) = 1 THEN 0 ELSE Len(best) - 1,
          otherStores |-> IF Len(best) = 1 THEN <<>> ELSE Tail(best)]

\* state.cart.forEach that renders a card only for the items with products
resultCardsFoundOnly(results, c) ==
    LET HasProducts(name) == Len(productsFor(results, name)) > 0
        found == SelectSeq(c, HasProducts)
    IN  [i \in 1..Len(found) |-> resultCard(results, found[i])]

\* state.cart.forEach((cartItem, cartIndex) => ...)
resultCards(results, c) ==
    [i \in 1..Len(c) |-> resultCard(results, c[i])]

\* Object.values(results).forEach(products => total += products.length)
RECURSIVE SumOfLengths(_, _)
SumOfLengths(results, keys) ==
    IF keys = {} THEN 0
    ELSE LET k == CHOOSE x \in keys : TRUE IN
         Len(results[k]) + SumOfLengths(results, keys \ {k})

\* Object.keys(results).filter(item => results[item].length > 0)
itemsWithResults(results) == { k \in DOMAIN results : Len(results[k]) > 0 }

\* displayResults(data) with state.cart = c; data.results || {} is the mapping
\* with no key when the body has no results
displayResults(data, c) ==
    LET results == data.results IN
    [itemsFound |-> Cardinality(itemsWithResults(results)),
     totalItems |-> Len(c),
     totalProducts |-> SumOfLengths(results, DOMAIN results),
     cards |-> resultCards(results, c)]

----------------------------------------------------------------------------
Init ==
    /\ cart = <<>>
    /\ currentStep = 1
    /\ jobId = NoJob
    /\ pollInterval = NoJob
    /\ zipCode = NullZip
    /\ pendingSuggestions = <<>>
    /\ pollCount = 0
    /\ progress = 0
    /\ zipInput = <<>>
    /\ findPricesDisabled = TRUE
    /\ suggestionsHidden = TRUE
    /\ timers = {}
    /\ timerSeq = 0
    /\ lookups = {}
    /\ now = 1
    /\ submits = {}
    /\ polls = [j \in {NoJob} |-> 0]
    /\ submitted = <<>>
    /\ shown = NoJob
    /\ resultsView = NoResults
    /\ displayed = NoData
    /\ last = Did("load", 0, Null)

----------------------------------------------------------------------------
(* Step 1 *)

\* itemInput keypress Enter / addManualBtn click -> submitItemForAI, up to
\* the await
SubmitItem(raw) ==
    LET text == Trim(raw) IN
    /\ currentStep = 1
    /\ Len(text) >= MinTextLength
    /\ pendingSuggestions' =
          Append(pendingSuggestions,
                 [id |-> now, originalText |-> text, status |-> "loading",
                  suggestions |-> NullData, tag |-> FreeTag, by |-> {}])
    /\ suggestionsHidden' = FALSE
    /\ lookups' = lookups \cup {[pendingId |-> now, tag |-> FreeTag]}
    /\ last' = Did("submitItem", 0, Null)
    /\ UNCHANGED <<cartVars, zipVars, pollVars, currentStep, now>>

\* submitItemForAI after the await: fetchSuggestions returned data, or null
\* after a failed request (it catches every error itself)
LookupResolves(l, data) ==
    /\ l \in lookups
    /\ lookups' = lookups \ {l}
    /\ pendingSuggestions' =
          completeLookup(pendingSuggestions, l.pendingId, l.tag, data)
    /\ suggestionsHidden' =
          IF FindIndexById(pendingSuggestions, l.pendingId) # 0
          THEN FALSE ELSE suggestionsHidden
    /\ last' = Did("lookupResolves", 0, Null)
    /\ UNCHANGED <<cartVars, zipVars, pollVars, currentStep, now>>

\* the card's listener with removePendingItem called only when addToCart added
\* the name
SelectSuggestionIfAdded(i, name) ==
    /\ currentStep = 1
    /\ ~suggestionsHidden
    /\ i \in 1..Len(pendingSuggestions)
    /\ name \in CardNames(pendingSuggestions[i])
    /\ cart' = addToCart(cart, name)
    /\ pendingSuggestions' =
          IF cart' # cart
          THEN removePendingItem(pendingSuggestions, pendingSuggestions[i].id)
          ELSE pendingSuggestions
    /\ suggestionsHidden' = (Len(pendingSuggestions') = 0)
    /\ last' = Did("select", Len(cart), name)
    /\ UNCHANGED <<lookups, zipVars, pollVars, currentStep, now>>

\* click on a suggestion card (createSuggestionCard's listener)
SelectSuggestion(i, name) ==
    /\ currentStep = 1
    /\ ~suggestionsHidden
    /\ i \in 1..Len(pendingSuggestions)
    /\ name \in CardNames(pendingSuggestions[i])
    /\ cart' = addToCart(cart, name)
    /\ pendingSuggestions' =
          removePendingItem(pendingSuggestions, pendingSuggestions[i].id)
    /\ suggestionsHidden' = (Len(pendingSuggestions') = 0)
    /\ last' = Did("select", Len(cart), name)
    /\ UNCHANGED <<lookups, zipVars, pollVars, currentStep, now>>

\* click on a cart row's remove button
RemoveFromCart(index) ==
    /\ currentStep = 1
    /\ index \in 0..(Len(cart) - 1)
    /\ cart' = removeFromCart(cart, index)
    /\ last' = Did("remove", index, Null)
    /\ UNCHANGED <<pendingVars, zipVars, pollVars, currentStep, now>>

\* window.removeFromCart(index) called with any number
CallRemoveFromCart(index) ==
    /\ cart' = removeFromCart(cart, index)
    /\ last' = Did("remove", index, Null)
    /\ UNCHANGED <<pendingVars, zipVars, pollVars, currentStep, now>>

\* clearCartBtn click, confirmed
ClearCart ==
    /\ currentStep = 1
    /\ ClearVisible
    /\ cart' = <<>>
    /\ last' = Did("clear", 0, Null)
    /\ UNCHANGED <<pendingVars, zipVars, pollVars, currentStep, now>>

\* continueBtn click
Continue ==
    /\ currentStep = 1
    /\ ~ContinueDisabled
    /\ currentStep' = 2
    /\ last' = Did("continue", 0, Null)
    /\ UNCHANGED <<cartVars, pendingVars, zipVars, pollVars, now>>

\* time passes: Date.now() reads one more
ClockTick ==
    /\ now' = now + 1
    /\ UNCHANGED <<cartVars, pendingVars, zipVars, pollVars, currentStep, last>>

----------------------------------------------------------------------------
(* Step 2 *)

\* zipInput 'input' listener
ZipTyped(raw) ==
    /\ currentStep = 2
    /\ zipInput' = StripNonDigits(raw)
    /\ findPricesDisabled' = (Len(zipInput') # MIN_ZIP_LENGTH)
    /\ last' = Did("zipTyped", 0, Null)
    /\ UNCHANGED <<cartVars, pendingVars, pollVars, zipCode, currentStep, now>>

\* backBtn click
Back ==
    /\ currentStep = 2
    /\ currentStep' = 1
    /\ last' = Did("back", 0, Null)
    /\ UNCHANGED <<cartVars, pendingVars, zipVars, pollVars, now>>

\* findPricesBtn click, or Enter in zipInput: submitCart up to the await
SubmitCart ==
    /\ currentStep = 2
    /\ ~findPricesDisabled
    /\ zipCode' = zipInput
    /\ currentStep' = 3
    /\ submitted' = Append(submitted, [items |-> cart, zipcode |-> zipInput])
    /\ submits' = submits \cup {Len(submitted) + 1}
    /\ polls' = [j \in 0..(Len(submitted) + 1) |->
                   IF j \in DOMAIN polls THEN polls[j] ELSE 0]
    /\ last' = Did("submitCart", Len(submitted) + 1, Null)
    /\ UNCHANGED <<cartVars, pendingVars, zipInput, findPricesDisabled, jobId,
                   pollInterval, pollCount, progress, timers, timerSeq,
                   shown, resultsView, displayed, now>>

----------------------------------------------------------------------------
(* Step 3 *)

\* the synchronous head of pollResults
PollProgress(count) == Min(count * ProgressStep, ProgressCap)

\* the handle clearInterval(state.pollInterval) clears
clearInterval(ts, handle) == ts \ {handle}

\* startPolling: what setInterval does to the set of live intervals
startPollingTimers(ts, handle, fresh) == ts \cup {fresh}

\* submitCart after the await, response ok: store job_id, startPolling (which
\* runs pollResults up to its await)
SubmitOk(k) ==
    /\ k \in submits
    /\ submits' = submits \ {k}
    /\ jobId' = k
    /\ pollCount' = 1
    /\ progress' = PollProgress(1)
    /\ timerSeq' = timerSeq + 1
    /\ pollInterval' = timerSeq + 1
    /\ timers' = startPollingTimers(timers, pollInterval, timerSeq + 1)
    /\ polls' = [polls EXCEPT ![k] = @ + 1]
    /\ last' = Did("submitOk", k, Null)
    /\ UNCHANGED <<cartVars, pendingVars, zipVars, currentStep, submitted, shown,
                   resultsView, displayed, now>>

\* submitCart after the await, request failed or not ok
SubmitFails(k) ==
    /\ k \in submits
    /\ submits' = submits \ {k}
    /\ currentStep' = 2
    /\ last' = Did("submitFails", k, Null)
    /\ UNCHANGED <<cartVars, pendingVars, zipVars, jobId, pollInterval, pollCount,
                   progress, timers, timerSeq, polls, submitted, shown,
                   resultsView, displayed, now>>

\* an interval fires: pollResults up to its await
TimerFires(t) ==
    /\ t \in timers
    /\ pollCount' = pollCount + 1
    /\ progress' = PollProgress(pollCount + 1)
    /\ polls' = [polls EXCEPT ![jobId] = @ + 1]
    /\ last' = Did("tick", t, Null)
    /\ UNCHANGED <<cartVars, pendingVars, zipVars, currentStep, jobId, pollInterval,
                   timers, timerSeq, submits, submitted, shown, resultsView, displayed,
                   now>>

\* pollResults after the await: status 'complete'
PollComplete(j, data) ==
    /\ j \in DOMAIN polls \ {NoJob} /\ polls[j] > 0
    /\ polls' = [polls EXCEPT ![j] = @ - 1]
    /\ timers' = clearInterval(timers, pollInterval)
    /\ progress' = ProgressDone
    /\ resultsView' = displayResults(data, cart)
    /\ displayed' = data
    /\ shown' = j
    /\ currentStep' = 4
    /\ last' = Did("pollComplete", j, Null)
    /\ UNCHANGED <<cartVars, pendingVars, zipVars, jobId, pollInterval, pollCount,
                   timerSeq, submits, submitted, now>>

\* pollResults after the await: status 'processing' or 'queued'
PollPending(j, status) ==
    /\ j \in DOMAIN polls \ {NoJob} /\ polls[j] > 0
    /\ status \in PendingStatuses
    /\ polls' = [polls EXCEPT ![j] = @ - 1]
    /\ last' = Did("pollPending", j, Null)
    /\ UNCHANGED <<cartVars, pendingVars, zipVars, currentStep, jobId, pollInterval,
                   pollCount, progress, timers, timerSeq, submits, submitted,
                   shown, resultsView, displayed, now>>

\* pollResults after the await: status 'failed'
PollFailed(j) ==
    /\ j \in DOMAIN polls \ {NoJob} /\ polls[j] > 0
    /\ polls' = [polls EXCEPT ![j] = @ - 1]
    /\ timers' = clearInterval(timers, pollInterval)
    /\ currentStep' = 2
    /\ last' = Did("pollFailed", j, Null)
    /\ UNCHANGED <<cartVars, pendingVars, zipVars, jobId, pollInterval, pollCount,
                   progress, timerSeq, submits, submitted, shown, resultsView, displayed,
                   now>>

\* pollResults after the await: the request threw or the response was not ok
PollError(j) ==
    /\ j \in DOMAIN polls /\ polls[j] > 0
    /\ polls' = [polls EXCEPT ![j] = @ - 1]
    /\ timers' = clearInterval(timers, pollInterval)
    /\ currentStep' = 2
    /\ last' = Did("pollError", j, Null)
    /\ UNCHANGED <<cartVars, pendingVars, zipVars, jobId, pollInterval, pollCount,
                   progress, timerSeq, submits, submitted, shown, resultsView, displayed,
                   now>>

----------------------------------------------------------------------------
(* Step 4 *)

\* newSearchBtn click
NewSearch ==
    /\ currentStep = 4
    /\ cart' = <<>>
    /\ jobId' = NoJob
    /\ zipCode' = NullZip
    /\ zipInput' = <<>>
    /\ suggestionsHidden' = TRUE
    /\ currentStep' = 1
    /\ last' = Did("newSearch", 0, Null)
    /\ UNCHANGED <<pendingSuggestions, lookups, findPricesDisabled, pollInterval,
                   pollCount, progress, timers, timerSeq, submits, polls,
                   submitted, shown, resultsView, displayed, now>>

----------------------------------------------------------------------------
(* Specifications: the same handlers under five scopes of the environment *)

\* maySubmit: whether the user types a further item now; results: what
\* fetchSuggestions may return
BuildStep(maySubmit, results) ==
    \/ \E raw \in RawTexts : maySubmit /\ SubmitItem(raw)
    \/ \E l \in lookups, data \in results : LookupResolves(l, data)
    \/ \E i \in 1..Len(pendingSuggestions) :
          \E name \in CardNames(pendingSuggestions[i]) : SelectSuggestion(i, name)
    \/ \E index \in 0..(Len(cart) - 1) : RemoveFromCart(index)
    \/ ClearCart

FlowStep(maxJobs, maxInFlight, maxPollCount) ==
    \/ Continue
    \/ \E raw \in RawZips : ZipTyped(raw)
    \/ Back
    \/ Len(submitted) < maxJobs /\ SubmitCart
    \/ \E k \in submits : InFlightPolls < maxInFlight /\ SubmitOk(k)
    \/ \E k \in submits : SubmitFails(k)
    \/ \E t \in timers :
          /\ pollCount < maxPollCount
          /\ InFlightPolls < maxInFlight
          /\ TimerFires(t)
    \/ \E j \in DOMAIN polls \ {NoJob} :
          \E data \in PlainResponses(submitted[j].items) : PollComplete(j, data)
    \/ \E j \in DOMAIN polls, status \in PendingStatuses : PollPending(j, status)
    \/ \E j \in DOMAIN polls : PollFailed(j)
    \/ \E j \in DOMAIN polls : PollError(j)
    \/ NewSearch

\* the whole program, with a user who waits for the suggestions of one item
\* and deals with them before typing the next
Next ==
    \/ BuildStep(pendingSuggestions = <<>>, {MilkOnly, NoSuggested, NullData})
    \/ FlowStep(MaxJobs, MaxInFlight, MaxPollCount)

Spec == Init /\ [][Next]_vars

\* step 1 alone: concurrent lookups, and a clock that may or may not have
\* advanced between two submissions
NextBuild ==
    \/ BuildStep(Len(pendingSuggestions) < BuildMaxPending,
                 {MilkOrEggs, NullData})
    \/ now < MaxClock /\ ClockTick

SpecBuild == Init /\ [][NextBuild]_vars

\* the state SpecBuild reaches when the user has put two items in the cart
InitPoll ==
    /\ cart = <<"milk", "eggs">>
    /\ currentStep = 1
    /\ jobId = NoJob
    /\ pollInterval = NoJob
    /\ zipCode = NullZip
    /\ pendingSuggestions = <<>>
    /\ pollCount = 0
    /\ progress = 0
    /\ zipInput = <<>>
    /\ findPricesDisabled = TRUE
    /\ suggestionsHidden = TRUE
    /\ timers = {}
    /\ timerSeq = 0
    /\ lookups = {}
    /\ now = 1
    /\ submits = {}
    /\ polls = [j \in {NoJob} |-> 0]
    /\ submitted = <<>>
    /\ shown = NoJob
    /\ resultsView = NoResults
    /\ displayed = NoData
    /\ last = Did("select", 1, "eggs")

\* from a built cart on: overlapping polls, several submissions
NextPoll ==
    \/ \E index \in 0..(Len(cart) - 1) : RemoveFromCart(index)
    \/ ClearCart
    \/ FlowStep(PollMaxJobs, PollMaxInFlight, PollMaxPollCount)

SpecPoll == InitPoll /\ [][NextPoll]_vars

\* the eleven names of a cart filled to capacity and one more
CartCanon == <<"n01", "n02", "n03", "n04", "n05", "n06", "n07", "n08", "n09",
               "n10", "n11">>

\* a cart holding the first len names and one lookup that came back offering
\* one name, in step 1
InitCart ==
    /\ \E len \in 0..MAX_ITEMS : cart = SubSeq(CartCanon, 1, len)
    /\ \E n \in 1..Len(CartCanon) :
          pendingSuggestions =
             << [id |-> 1, originalText |-> <<"m", "i">>, status |-> "complete",
                 suggestions |-> [isNull |-> FALSE, suggested |-> CartCanon[n],
                                  alternatives |-> <<>>],
                 tag |-> 1, by |-> {1}] >>
    /\ currentStep = 1
    /\ jobId = NoJob
    /\ pollInterval = NoJob
    /\ zipCode = NullZip
    /\ pollCount = 0
    /\ progress = 0
    /\ zipInput = <<>>
    /\ findPricesDisabled = TRUE
    /\ suggestionsHidden = FALSE
    /\ timers = {}
    /\ timerSeq = 0
    /\ lookups = {}
    /\ now = 1
    /\ submits = {}
    /\ polls = [j \in {NoJob} |-> 0]
    /\ submitted = <<>>
    /\ shown = NoJob
    /\ resultsView = NoResults
    /\ displayed = NoData
    /\ last = Did("lookupResolves", 0, Null)

\* the cart's handlers on carts up to capacity
NextCart ==
    \/ \E i \in 1..Len(pendingSuggestions) :
          \E name \in CardNames(pendingSuggestions[i]) : SelectSuggestion(i, name)
    \/ \E index \in 0..(Len(cart) - 1) : RemoveFromCart(index)
    \/ ClearCart

SpecCart == InitCart /\ [][NextCart]_vars

\* the carts the results presenter is exercised on
ResultCarts == { <<"milk">>, <<"milk", "eggs">> }

\* step 2 with a built cart and a zip typed
InitResults ==
    /\ cart \in ResultCarts
    /\ currentStep = 2
    /\ jobId = NoJob
    /\ pollInterval = NoJob
    /\ zipCode = NullZip
    /\ pendingSuggestions = <<>>
    /\ pollCount = 0
    /\ progress = 0
    /\ zipInput = <<"0", "2", "1", "3", "9">>
    /\ findPricesDisabled = FALSE
    /\ suggestionsHidden = TRUE
    /\ timers = {}
    /\ timerSeq = 0
    /\ lookups = {}
    /\ now = 1
    /\ submits = {}
    /\ polls = [j \in {NoJob} |-> 0]
    /\ submitted = <<>>
    /\ shown = NoJob
    /\ resultsView = NoResults
    /\ displayed = NoData
    /\ last = Did("zipTyped", 0, Null)

\* one search against a backend that answers every request, with any product
\* lists for the items of the job
NextResults ==
    \/ submitted = <<>> /\ SubmitCart
    \/ \E k \in submits : SubmitOk(k)
    \/ \E t \in timers :
          /\ pollCount < ResultsMaxPollCount
          /\ InFlightPolls < ResultsMaxInFlight
          /\ TimerFires(t)
    \/ \E j \in DOMAIN polls \ {NoJob} :
          \E data \in RichResponses(submitted[j].items) : PollComplete(j, data)
    \/ NewSearch

SpecResults == InitResults /\ [][NextResults]_vars

\* a cart of up to RemoveMaxLen names in step 1
InitRemove ==
    /\ \E len \in 0..RemoveMaxLen :
          /\ cart = SubSeq(CartCanon, 1, len)
          /\ last = IF len = 0 THEN Did("load", 0, Null)
                    ELSE Did("select", len - 1, CartCanon[len])
    /\ currentStep = 1
    /\ jobId = NoJob
    /\ pollInterval = NoJob
    /\ zipCode = NullZip
    /\ pendingSuggestions = <<>>
    /\ pollCount = 0
    /\ progress = 0
    /\ zipInput = <<>>
    /\ findPricesDisabled = TRUE
    /\ suggestionsHidden = TRUE
    /\ timers = {}
    /\ timerSeq = 0
    /\ lookups = {}
    /\ now = 1
    /\ submits = {}
    /\ polls = [j \in {NoJob} |-> 0]
    /\ submitted = <<>>
    /\ shown = NoJob
    /\ resultsView = NoResults
    /\ displayed = NoData

\* the global removeFromCart called with indexes inside and outside the cart
NextRemove ==
    \E index \in (0 - RemoveMaxIndex)..RemoveMaxIndex : CallRemoveFromCart(index)

SpecRemove == InitRemove /\ [][NextRemove]_vars

\* TimerFires with the counter kept at LiveMaxPollCount: pollCount is read only
\* in Math.min(pollCount * 10, 90), so every count of 9 or more shows the same
TimerFiresOn(t) ==
    /\ t \in timers
    /\ pollCount' = Min(pollCount + 1, LiveMaxPollCount)
    /\ progress' = PollProgress(pollCount + 1)
    /\ polls' = [polls EXCEPT ![jobId] = @ + 1]
    /\ last' = Did("tick", t, Null)
    /\ UNCHANGED <<cartVars, pendingVars, zipVars, currentStep, jobId, pollInterval,
                   timers, timerSeq, submits, submitted, shown, resultsView, displayed,
                   now>>

\* setInterval keeps firing an interval that is set
TimerStep ==
    \E t \in timers : InFlightPolls < LiveMaxInFlight /\ TimerFiresOn(t)

\* the server reports job j 'complete' or 'failed'
PollReported(j) ==
    \/ \E data \in PlainResponses(submitted[j].items) : PollComplete(j, data)
    \/ PollFailed(j)

\* every status request is answered or fails
PollResponseStep ==
    \/ \E j \in 1..Len(submitted) : PollReported(j)
    \/ \E j \in DOMAIN polls, status \in PendingStatuses : PollPending(j, status)
    \/ \E j \in DOMAIN polls : PollError(j)

\* every POST /api/cart is answered or fails
SubmitResponseStep ==
    \/ \E k \in submits : InFlightPolls < LiveMaxInFlight /\ SubmitOk(k)
    \/ \E k \in submits : SubmitFails(k)

NextLive ==
    \/ Len(submitted) < LiveMaxJobs /\ SubmitCart
    \/ SubmitResponseStep
    \/ TimerStep
    \/ PollResponseStep
    \/ NewSearch

\* steps 2 to 4 with timers that fire, requests that are answered, and a server
\* that reports every job it is asked about 'complete' or 'failed' in the end
SpecLive ==
    /\ InitResults
    /\ [][NextLive]_vars
    /\ WF_vars(TimerStep)
    /\ WF_vars(PollResponseStep)
    /\ WF_vars(SubmitResponseStep)
    /\ \A j \in 1..LiveMaxJobs : SF_vars(j <= Len(submitted) /\ PollReported(j))

----------------------------------------------------------------------------
(* The claims *)

Range(s) == { s[i] : i \in 1..Len(s) }

IsFiveDigitZip(z) == Len(z) = MIN_ZIP_LENGTH /\ \A i \in 1..Len(z) : z[i] \in Digits

\* s without its i-th element, the others in their order
WithoutEntry(s, i) ==
    [j \in 1..(Len(s) - 1) |-> IF j < i THEN s[j] ELSE s[j + 1]]

\* C1: at most one poll timer is active, whatever submissions, ticks,
\* responses and new searches came before.
C1_AtMostOneTimer == Cardinality(timers) <= 1

\* C2: in the state a new search leaves, no poll timer is active (so no
\* status request follows before the next successful submit).
C2_NewSearchCancelsTimer == last.op = "newSearch" => timers = {}

\* C3: processing a 'complete' response cancels the poll timer, shows the
\* results and makes the phase 4; after that the phase stays 4 and no status
\* request is issued for the shown job until the user starts a new search.
C3_CompleteIsTerminal ==
    [][ /\ last'.op = "pollComplete" =>
              /\ timers' = {}
              /\ currentStep' = 4
              /\ shown' = last'.a
        /\ (currentStep = 4 /\ last'.op # "newSearch") =>
              /\ currentStep' = 4
              /\ polls'[shown] <= polls[shown] ]_vars

\* C4: after a poll response 'failed' or a failed poll request for a job, the
\* phase is 2 and the cart and state.zipCode are what was submitted for that
\* job.
C4_PollFailureKeepsCartAndZip ==
    (last.op \in {"pollFailed", "pollError"} /\ last.a # NoJob) =>
        /\ currentStep = 2
        /\ cart = submitted[last.a].items
        /\ zipCode = submitted[last.a].zipcode

\* C5: every pending entry is written by its own lookup's completion only
\* (so at most once), and is no longer loading once its own lookup resolved.
C5_EachEntryCompletedOnceByItsOwnLookup ==
    \A i \in 1..Len(pendingSuggestions) :
        LET e == pendingSuggestions[i] IN
        /\ e.by \subseteq {e.tag}
        /\ (\A l \in lookups : l.tag # e.tag) => e.status # "loading"

\* C6: a click on a card of the i-th pending entry removes that entry and
\* leaves every other entry as it was, in the same order.
C6_SelectRemovesOnlyItsEntry ==
    [][ \A i \in 1..Len(pendingSuggestions) :
          \A name \in CardNames(pendingSuggestions[i]) :
            SelectSuggestion(i, name) =>
               pendingSuggestions' = WithoutEntry(pendingSuggestions, i) ]_vars

\* a selection was made and another entry is still pending
C6_Witness == last.op = "select" /\ Len(pendingSuggestions) >= 1

\* C7: the cart never holds more than MAX_ITEMS items, and an add attempted
\* on a cart of MAX_ITEMS items leaves the cart as it was.
C7_CartNeverExceedsMaxItems ==
    /\ [](Len(cart) <= MAX_ITEMS)
    /\ [][ \A i \in 1..Len(pendingSuggestions) :
              \A name \in CardNames(pendingSuggestions[i]) :
                (SelectSuggestion(i, name) /\ Len(cart) = MAX_ITEMS) => cart' = cart
          ]_vars

\* a name not in the cart was selected on a full cart, and was declined
C7_Witness ==
    /\ last.op = "select"
    /\ last.a = MAX_ITEMS
    /\ Len(cart) = MAX_ITEMS
    /\ last.name \notin Range(cart)

\* C8: no two cart entries have the same name, and an add of a name the cart
\* holds leaves the cart as it was.
C8_NoDuplicateNames ==
    /\ [](\A i, j \in 1..Len(cart) : cart[i] = cart[j] => i = j)
    /\ [][ \A i \in 1..Len(pendingSuggestions) :
              \A name \in CardNames(pendingSuggestions[i]) :
                (SelectSuggestion(i, name) /\ name \in Range(cart)) => cart' = cart
          ]_vars

\* a name the cart holds was selected again, and the cart kept its length
C8_Witness ==
    /\ last.op = "select"
    /\ last.a = Len(cart)
    /\ last.name \in Range(cart)

\* C9: while the job stays the same the progress never decreases; a tick sets
\* it to min(pollCount * 10, 90); it becomes 100 only by a processed
\* 'complete' response.
C9_ProgressMonotone ==
    [][ /\ last'.op \in {"tick", "submitOk"} =>
              progress' = Min(pollCount' * ProgressStep, ProgressCap)
        /\ (progress' = ProgressDone /\ progress # ProgressDone) =>
              last'.op = "pollComplete"
        /\ (jobId # NoJob /\ jobId' = jobId) => progress' >= progress ]_vars

\* C10: whenever submitCart can be triggered (step 2 is shown and
\* findPricesBtn is enabled) the zip it would read is five digits, and every
\* body sent to /api/cart carries such a zip.
C10_SubmittedZipIsFiveDigits ==
    /\ (currentStep = 2 /\ ~findPricesDisabled) => IsFiveDigitZip(zipInput)
    /\ \A k \in 1..Len(submitted) : IsFiveDigitZip(submitted[k].zipcode)

\* C11: a failed cart submission is handled in phase 3 and leaves phase 2,
\* stores no job id and starts no timer; in the state it leaves the cart and
\* state.zipCode are what that submission sent, so it can be repeated.
C11_SubmitFailureRevertsToLocation ==
    /\ [](last.op = "submitFails" =>
            /\ currentStep = 2
            /\ cart = submitted[last.a].items
            /\ zipCode = submitted[last.a].zipcode)
    /\ [][ \A k \in submits :
             SubmitFails(k) =>
                /\ currentStep = 3
                /\ jobId' = jobId
                /\ pollInterval' = pollInterval
                /\ timers' = timers ]_vars

\* the lowest price in a non-empty product list
MinPrice(products) ==
    CHOOSE m \in { products[k].price : k \in 1..Len(products) } :
        \A k \in 1..Len(products) : m <= products[k].price

\* the products of a list that cost exactly m, in the order of the list
AtPrice(products, m) ==
    LET Costs(p) == p.price = m IN SelectSeq(products, Costs)

RECURSIVE SumOverCart(_, _)
SumOverCart(results, c) ==
    IF c = <<>> THEN 0
    ELSE Len(productsFor(results, Head(c))) + SumOverCart(results, Tail(c))

\* C12: in the state displayResults leaves, for every cart item with a
\* non-empty product list the best-price group on its card is the products of
\* the list at the minimum price, in the order the server returned them; the
\* rows behind the toggle are the group without its first product, and the
\* count on the toggle is the group size minus one; no product in the group
\* costs more than the minimum.
C12_BestPriceGroup ==
    last.op = "pollComplete" =>
      \A i \in 1..Len(cart) :
        LET products == productsFor(displayed.results, cart[i])
            card == resultsView.cards[i]
        IN  products # <<>> =>
              /\ card.best = AtPrice(products, MinPrice(products))
              /\ \A k \in 1..Len(card.best) :
                    card.best[k].price = MinPrice(products)
              /\ card.expand = (Len(card.best) > 1)
              /\ card.expand =>
                    /\ card.otherCount = Len(card.best) - 1
                    /\ card.otherStores = Tail(card.best)

\* results for a one-item cart were displayed: two products tie at the best
\* price, the second of them is not the list's second product, and a third
\* product costs more
C12_Witness ==
    /\ last.op = "pollComplete"
    /\ Len(cart) = 1
    /\ Len(resultsView.cards) = 1
    /\ resultsView.totalProducts = 3
    /\ resultsView.cards[1].otherCount = 1
    /\ resultsView.cards[1].best[2].merchant = Merchants[3]

C14_SummaryCounts ==
    /\ resultsView.itemsFound <= resultsView.totalItems
    /\ last.op = "pollComplete" =>
          /\ resultsView.itemsFound =
                Cardinality({ i \in 1..Len(cart) :
                   productsFor(displayed.results, cart[i]) # <<>> })
          /\ resultsView.totalItems = Len(cart)
          /\ resultsView.totalProducts = SumOverCart(displayed.results, cart)

\* C15: a poll response for a job other than state.jobId, or one processed
\* when the phase is not 3, and a tick of a timer other than the current one
\* or in a phase other than 3, leave the phase, the set of active timers and
\* the displayed results as they were.
C15_StalePollIsIgnored ==
    [][ /\ \A j \in DOMAIN polls :
             (j # jobId \/ currentStep # 3) =>
                ( ( \/ PollFailed(j)
                    \/ PollError(j)
                    \/ /\ j # NoJob
                       /\ \E data \in PlainResponses(submitted[j].items) :
                             PollComplete(j, data) )
                  => /\ currentStep' = currentStep
                     /\ timers' = timers
                     /\ resultsView' = resultsView )
        /\ \A t \in timers :
             (TimerFires(t) /\ (t # pollInterval \/ currentStep # 3)) =>
                /\ currentStep' = currentStep
                /\ timers' = timers
                /\ resultsView' = resultsView ]_vars

\* C16: when fetchSuggestions failed (it returned null), the completion of
\* the lookup moves the loading entry it finds to status 'error'.
C16_LookupFailureGivesError ==
    [][ \A l \in lookups :
          LET index == FindIndexById(pendingSuggestions, l.pendingId) IN
          ( /\ LookupResolves(l, NullData)
            /\ index # 0
            /\ pendingSuggestions[index].status = "loading" )
          => pendingSuggestions'[index].status = "error" ]_vars

\* C17: the step that handles a failed poll request leaves no timer active
\* and the phase 2, and the step after it issues no status request for the
\* job of the failed request.
C17_PollErrorAbortsSession ==
    [][ /\ \A j \in DOMAIN polls :
             PollError(j) => (timers' = {} /\ currentStep' = 2)
        /\ last.op = "pollError" => polls'[last.a] <= polls[last.a] ]_vars

\* C18: no two entries of state.pendingSuggestions have the same id.
C18_PendingIdsDistinct ==
    \A i, j \in 1..Len(pendingSuggestions) :
        pendingSuggestions[i].id = pendingSuggestions[j].id => i = j

\* C19: a click on a card adds the card's name to the cart when the add is
\* accepted (the name is not in the cart and the cart is below MAX_ITEMS) and
\* leaves the cart as it was otherwise; in both cases the card's pending entry
\* is removed.
C19_SelectAddsThenRemovesEntry ==
    [][ \A i \in 1..Len(pendingSuggestions) :
          \A name \in CardNames(pendingSuggestions[i]) :
            SelectSuggestion(i, name) =>
               LET accepted == name \notin Range(cart) /\ Len(cart) < MAX_ITEMS IN
               /\ cart' = IF accepted THEN Append(cart, name) ELSE cart
               /\ Len(pendingSuggestions') = Len(pendingSuggestions) - 1
               /\ pendingSuggestions' = WithoutEntry(pendingSuggestions, i)
      ]_vars

\* a card was clicked, the add was declined and the card's entry is gone
C19_Witness ==
    /\ last.op = "select"
    /\ Len(cart) = last.a
    /\ Len(cart) >= 1
    /\ pendingSuggestions = <<>>

\* C21: removeFromCart(index) with 0 <= index < cart length removes the item
\* at that position and keeps the others in their order; with any other index
\* it leaves the cart as it was.
C21_RemoveFromCartByIndex ==
    [][ \A index \in (0 - RemoveMaxIndex)..RemoveMaxIndex :
          CallRemoveFromCart(index) =>
             cart' = IF 0 <= index /\ index < Len(cart)
                     THEN WithoutEntry(cart, index + 1)
                     ELSE cart ]_vars

\* C22: the phase changes only 1->2 by continue, 2->1 by back, 2->3 by a
\* submit, 3->2 by a submit failure, a 'failed' response or a poll error, 3->4
\* by a 'complete' response and 4->1 by a new search.
C22_PhaseEdges ==
    [][ currentStep' # currentStep =>
          \/ currentStep = 1 /\ currentStep' = 2 /\ last'.op = "continue"
          \/ currentStep = 2 /\ currentStep' = 1 /\ last'.op = "back"
          \/ currentStep = 2 /\ currentStep' = 3 /\ last'.op = "submitCart"
          \/ /\ currentStep = 3 /\ currentStep' = 2
             /\ last'.op \in {"submitFails", "pollFailed", "pollError"}
          \/ currentStep = 3 /\ currentStep' = 4 /\ last'.op = "pollComplete"
          \/ currentStep = 4 /\ currentStep' = 1 /\ last'.op = "newSearch" ]_vars

\* C23: whenever a poll timer is active the phase is 3, and every status
\* request is issued in phase 3.
C23_TimerOnlyInPolling ==
    /\ [](timers # {} => currentStep = 3)
    /\ [][ last'.op \in {"tick", "submitOk"} => currentStep' = 3 ]_vars

\* C24: every body sent to /api/cart has at least one item, and the cart is
\* not empty while the phase is 2.
C24_SubmissionHasItems ==
    /\ \A k \in 1..Len(submitted) : submitted[k].items # <<>>
    /\ currentStep = 2 => cart # <<>>

\* C25: after every successful submit a state follows in which no poll timer
\* is active and the phase is 4 or 2.
C25_PollingSessionEnds ==
    (last.op = "submitOk") ~> (timers = {} /\ currentStep \in {2, 4})

====
